---- MODULE Spec2Model ----
(***************************************************************************)
(* Model of the taxonomic classifiers of classy:                           *)
(*   src/classy/taxonomies/demeo.py   (DeMeo+ 2009)                        *)
(*   src/classy/taxonomies/tholen.py  (Tholen 1984)                        *)
(*   src/classy/taxonomies/mahlke.py  (Mahlke+ 2022)                       *)
(*   src/classy/data.py               (package resources)                  *)
(*                                                                         *)
(* One Spectrum object is the state.  Every action is one call a caller    *)
(* makes on it; the action is the whole call, up to its return or to the   *)
(* exception that ends it.  That is the specification Spec.                *)
(*                                                                         *)
(* The loaders of the reference data are followed in a second              *)
(* specification, LoadSpec: the threads of one process call them, and a    *)
(* step is what one thread does without releasing the interpreter lock.    *)
(*                                                                         *)
(* Numbers.  Wavelengths, reflectances, slopes and principal-component     *)
(* scores are fixed-point, in units of 0.001 (0.45 micron is 450, a slope  *)
(* of 0.25 is 250).  A boundary line of slope 1/3 is compared after        *)
(* multiplying both sides by three.                                        *)
(*                                                                         *)
(* Python.  An attribute a Spectrum does not have is the empty tuple for   *)
(* a sequence-valued attribute and Unset for a label.  Python's None is    *)
(* the value None_.  An exception is the value of err after the call; a    *)
(* name that the module of the called function never binds raises          *)
(* NameError where it is evaluated.                                        *)
(***************************************************************************)
EXTENDS Integers, Sequences, FiniteSets, TLC

VARIABLES
    spec,    \* the Spectrum: a record of its attributes
    op,      \* the function the caller called last
    err,     \* the exception that ended that call, or NoErr
    ret,     \* what that call returned, or NoReturn when it raised
    trace,   \* the steps of that call that ran, in order
    threads, \* the threads of the process that call the loaders, and where they are
    lru,     \* the cache lru_cache keeps for demeo.load_classification
    reads    \* how often each backing store has been read by the threads

vars == <<spec, op, err, ret, trace, threads, lru, reads>>

\* ---------------------------------------------------------------------------
\* Values
Unset == "<unset>"        \* the attribute does not exist on the object
None_ == "<None>"         \* Python's None, as the value of an attribute
NoErr == "none"
\* What a call returns is a tuple: empty when the call raised, a class label as
\* the tuple of its letters.
NoReturn == <<>>
RetNone == <<"None">>
RetBool(b) == IF b THEN <<"True">> ELSE <<"False">>

\* ---------------------------------------------------------------------------
\* demeo.py: definitions

\* np.arange(start, stop, step) for step > 0: the ceil((stop - start) / step)
\* values start, start + step, ... below stop; stop itself is left out.
arange(start, stop, step) ==
    LET n == IF stop > start THEN (stop - start + step - 1) \div step ELSE 0
    IN  [i \in 1..n |-> start + step * (i - 1)]

\* A grid that takes the stop value in
WAVE_with_stop == arange(450, 2500 + 50, 50)

\* WAVE = np.arange(0.45, 2.5, 0.05)
WAVE == arange(450, 2500, 50)

\* len(DATA_MEAN): five rows of eight values
DATA_MEAN_LEN == 40

\* Each row of EIGENVECTORS has as many entries.
EIGENVECTORS_COLS == 40

\* ndarray.min() and ndarray.max()
SeqMin(w) ==
    LET m[i \in 1..Len(w)] ==
            IF i = 1 THEN w[1]
            ELSE LET rest == m[i - 1] IN IF w[i] < rest THEN w[i] ELSE rest
    IN  m[Len(w)]
SeqMax(w) ==
    LET m[i \in 1..Len(w)] ==
            IF i = 1 THEN w[1]
            ELSE LET rest == m[i - 1] IN IF w[i] > rest THEN w[i] ELSE rest
    IN  m[Len(w)]

\* demeo.is_classifiable(spec)
is_classifiable(s) ==
    ~ (SeqMin(s.wave) > SeqMin(WAVE) \/ SeqMax(s.wave) < SeqMax(WAVE))

\* The eight boundary lines of the decision tree, pc1 as a function of pc2.
alpha(pc2) == -3 * pc2 - 280
beta(pc2) == -3 * pc2 + 350
gamma(pc2) == -3 * pc2 + 1000
delta(pc2) == -3 * pc2 + 1500
theta(pc2) == -3 * pc2 + 700
\* 1 / 3 * pc2 + b, times three
epsilon3(pc2) == pc2 + 1650
zeta3(pc2) == pc2 - 300
eta3(pc2) == pc2 - 1200

\* What a tree leaves behind: the value of spec.class_demeo, the exception,
\* the number of assignments to spec.class_demeo it made, the sub-trees it
\* called and the warning statement it reached.  Out is a path that assigned
\* the class c, Raise one that raised before any assignment.
Out(c, e) ==
    [class_demeo |-> c, err |-> e, writes |-> 1, calls |-> <<>>, warned |-> <<>>]
Raise(s, e) ==
    [class_demeo |-> s.class_demeo, err |-> e, writes |-> 0, calls |-> <<>>,
     warned |-> <<>>]
\* `return demeo_s_complex(spec)`, `return demeo_c_and_x_complexes(spec)`
Delegate(name, r) == [r EXCEPT !.calls = <<name>> \o @]

\* classy.logging.logger.warning(...): demeo.py binds cache, config, logger,
\* np, pd and lru_cache, never the name classy, so evaluating it raises.
classy_logging_warning == "NameError"

\* The two kinds of message the trees log: "... class is indeterminate ..."
\* and "... class is either ... or ..."
Indeterminate == "warning: indeterminate"
Either == "warning: either"

\* `spec.class_demeo = c` followed by classy.logging.logger.warning(msg)
SetThenWarn(c, msg) == [Out(c, classy_logging_warning) EXCEPT !.warned = <<msg>>]
\* classy.logging.logger.warning(msg) before any assignment
Warn(s, msg) == [Raise(s, classy_logging_warning) EXCEPT !.warned = <<msg>>]

\* demeo.demeo_s_complex(spec)
demeo_s_complex(s) ==
    IF s.pc_demeo = <<>>
    THEN Raise(s, "AttributeError")      \* spec.pc0_demeo
    ELSE
    LET pc1 == s.pc_demeo[1]
        pc2 == s.pc_demeo[2]
        slope == s.slope
    IN  IF pc1 < beta(pc2) /\ pc1 > delta(pc2)
        THEN IF slope >= 250 THEN Out("Sw", NoErr) ELSE Out("S", NoErr)
        ELSE IF pc1 >= alpha(pc2) /\ pc1 < beta(pc2)
                /\ 3 * pc1 > eta3(pc2) /\ 3 * pc1 <= zeta3(pc2)
        THEN IF slope >= 250 THEN Out("Sqw", NoErr) ELSE Out("Sq", NoErr)
        ELSE IF pc1 >= beta(pc2) /\ pc1 < gamma(pc2)
                /\ 3 * pc1 > eta3(pc2) /\ 3 * pc1 <= epsilon3(pc2)
        THEN IF slope >= 250 THEN Out("Srw", NoErr) ELSE Out("Sr", NoErr)
        ELSE IF pc1 >= beta(pc2) /\ 3 * pc1 > epsilon3(pc2) /\ pc1 < gamma(pc2)
        THEN IF slope >= 250 THEN Out("Svw", NoErr) ELSE Out("Sv", NoErr)
        ELSE SetThenWarn("S", Indeterminate)

\* A sub-tree that tests PC3
demeo_c_and_x_complexes_testing_pc3(s) ==
    IF s.pc_demeo = <<>>
    THEN Raise(s, "AttributeError")
    ELSE IF -75 < s.pc_demeo[3] /\ s.pc_demeo[3] < 140
    THEN SetThenWarn("Xk", Either)
    ELSE SetThenWarn("", Indeterminate)

\* demeo.demeo_c_and_x_complexes(spec)
demeo_c_and_x_complexes(s) ==
    IF s.pc_demeo = <<>>
    THEN Raise(s, "AttributeError")      \* spec.pc0_demeo
    ELSE
    LET pc1 == s.pc_demeo[1]
        pc2 == s.pc_demeo[2]
        pc4 == s.pc_demeo[4]
        pc5 == s.pc_demeo[5]
        slope == s.slope
    IN  IF -200 < slope /\ slope < 0 /\ -1200 < pc1 /\ pc1 < 0 /\ pc4 < 0
        THEN Out("B", NoErr)
        ELSE IF 200 < slope /\ slope < 380
        THEN SetThenWarn("X", Either)
        ELSE IF 10 < pc4 /\ pc4 < 140 /\ -750 < pc1 /\ pc1 < -270 /\ s.refl0 < 920
        THEN IF s.wave[1] # 450 THEN Out("", NoErr) ELSE SetThenWarn("Cgh", Either)
        ELSE IF 10 < pc4 /\ pc4 < 140 /\ -750 < pc1 /\ pc1 < -270
        THEN SetThenWarn("Ch", Either)
        ELSE IF -40 < pc4 /\ pc4 < 20 /\ -70 < pc5 /\ pc5 < -40
        THEN Out("Cb", NoErr)
        ELSE IF -850 < pc1 /\ pc1 < -450 /\ -60 < pc5 /\ pc5 < -20
        THEN SetThenWarn("C", Either)
        ELSE IF 20 <= pc5 /\ pc5 < 100 /\ -600 < pc1 /\ pc1 < -160
        THEN SetThenWarn("Cg", Either)
        ELSE IF -450 <= pc1 /\ pc1 < 100 /\ -60 < pc5 /\ pc5 < 50
        THEN SetThenWarn("Xk", Either)
        ELSE IF -100 <= pc1 /\ pc1 < 300 /\ -500 < pc2 /\ pc2 < -200
        THEN SetThenWarn("Xe", Either)
        ELSE SetThenWarn("", Indeterminate)

\* A tree whose step 3 tests L before D
decision_tree_L_before_D(s) ==
    LET pc1 == s.scores_demeo[1]
        pc2 == s.scores_demeo[2]
        slope == s.slope
    IN  IF 70 < pc1 /\ pc1 < 1000 /\ -500 < pc2 /\ pc2 < -150
        THEN SetThenWarn("L", Either)
        ELSE IF 380 <= slope /\ slope < 1500 /\ -440 < pc1 /\ pc1 < 400
        THEN SetThenWarn("D", Either)
        ELSE Delegate("demeo_c_and_x_complexes", demeo_c_and_x_complexes(s))

\* demeo.decision_tree(spec).  Every return of the tree and of its sub-trees is
\* a bare `return`: the tree writes spec.class_demeo and returns None.
decision_tree(s) ==
    IF Len(s.scores_demeo) < 4
    THEN Raise(s, IF s.scores_demeo = <<>> THEN "AttributeError" ELSE "ValueError")
    ELSE
    LET pc1 == s.scores_demeo[1]
        pc2 == s.scores_demeo[2]
        pc3 == s.scores_demeo[3]
        slope == s.slope
    IN  \* Vis-IR step 1
        IF pc1 < -300 /\ pc2 >= 200 /\ slope >= 400
        THEN IF 550 <= slope /\ slope < 1500 THEN Out("A", NoErr)
             ELSE IF 400 <= slope /\ slope < 550 THEN Out("Sa", NoErr)
             ELSE Warn(s, Indeterminate)
        \* Vis-IR step 2
        ELSE IF pc1 > alpha(pc2)
        THEN IF pc1 >= gamma(pc2)
             THEN IF slope >= 250 THEN Out("Vw", NoErr) ELSE Out("V", NoErr)
             ELSE IF 3 * pc1 <= eta3(pc2) /\ pc1 >= theta(pc2) /\ pc1 < delta(pc2)
             THEN Out("O", NoErr)
             ELSE IF 3 * pc1 <= eta3(pc2) /\ pc1 >= alpha(pc2) /\ pc1 < theta(pc2)
             THEN IF slope >= 250 THEN Out("Qw", NoErr) ELSE Out("Q", NoErr)
             ELSE IF 3 * pc1 >= eta3(pc2) /\ pc1 >= gamma(pc2) /\ pc1 < delta(pc2)
             THEN Out("R", NoErr)
             ELSE Delegate("demeo_s_complex", demeo_s_complex(s))
        \* Vis-IR step 3
        ELSE IF 380 <= slope /\ slope < 1500 /\ -440 < pc1 /\ pc1 < 400
        THEN SetThenWarn("D", Either)
        ELSE IF 250 < slope /\ slope < 380 /\ -280 < pc2 /\ pc2 < -200
                /\ -200 < pc3 /\ pc3 < -120
        THEN Out("T", NoErr)
        ELSE IF 70 < pc1 /\ pc1 < 1000 /\ -500 < pc2 /\ pc2 < -150
        THEN SetThenWarn("L", Either)
        ELSE IF -75 < pc3 /\ pc3 < 140 /\ -200 <= pc2 /\ pc2 < -100
                /\ -800 < pc1 /\ pc1 < -100
        THEN SetThenWarn("K", Either)
        ELSE Delegate("demeo_c_and_x_complexes", demeo_c_and_x_complexes(s))

\* breakpoint(): the debugger prompt.  The session either continues or is quit,
\* and quitting raises bdb.BdbQuit out of the call.
Debugger == {"continue", "quit"}

\* `if spec.wave != WAVE:` on numpy arrays.  The comparison is elementwise: with
\* more than one element the truth value of the result is ambiguous
\* (ValueError); with shapes that do not broadcast the comparison itself raises
\* or, in older numpy, is True, and then classify raises its own ValueError.
\* Only two one-element arrays give a truth value.
wave_ne_WAVE(w) ==
    IF Len(w) = 1 /\ Len(WAVE) = 1
    THEN IF w[1] # WAVE[1] THEN "True" ELSE "False"
    ELSE "ValueError"

\* x[:3] followed by x[4:]
DropIndex3(x) ==
    [i \in 1..(IF Len(x) >= 4 THEN Len(x) - 1 ELSE Len(x)) |->
        IF i <= 3 THEN x[i] ELSE x[i + 1]]

\* np.concatenate([x[:2], x[3:]]): x without its element of index 2, the third.
\* spec.refl[i] is the reflectance at spec.wave[i]; applied to spec.wave this
\* gives the wavelengths of the reflectances classify keeps.
DropIndex2(x) ==
    [i \in 1..(IF Len(x) >= 3 THEN Len(x) - 1 ELSE Len(x)) |->
        IF i <= 2 THEN x[i] ELSE x[i + 1]]

\* `refl -= DATA_MEAN.T`, in place on an array of n elements
Demean(n) == IF n = DATA_MEAN_LEN THEN NoErr ELSE "ValueError"

\* `spec.scores_demeo = EIGENVECTORS @ data.T`: demeo.py never binds the name
\* data (the local is refl), so the right-hand side raises before the product
\* is taken and before anything is assigned.  The product of EIGENVECTORS and
\* the demeaned reflectance of the Spectrum is s.raw.scores.
Projection(s) == [err |-> "NameError", scores |-> <<>>]

\* The result of a call: the Spectrum after it, the exception, the return value
\* and the steps that ran.  An assignment to spec.class_demeo is a step of its
\* own, "class_demeo=".
Assigned(n) == [i \in 1..n |-> "class_demeo="]
Res(s, e, r, tr) == [spec |-> s, err |-> e, ret |-> r, trace |-> tr]

\* demeo.classify(spec)
classify(s, dbg) ==
    LET gate == IF s.is_preprocessed_demeo THEN "False" ELSE wave_ne_WAVE(s.wave)
        n == Len(DropIndex2(s.wave))        \* len(refl)
        proj == Projection(s)
        s1 == [s EXCEPT !.scores_demeo = proj.scores]
        tree == decision_tree(s1)
        s2 == [s1 EXCEPT !.class_demeo = tree.class_demeo]
    IN  IF gate # "False"
        THEN Res(s, "ValueError", NoReturn, <<"gate">>)
        ELSE IF dbg = "quit"
        THEN Res(s, "BdbQuit", NoReturn, <<"gate", "drop">>)
        ELSE IF Demean(n) # NoErr
        THEN Res(s, Demean(n), NoReturn, <<"gate", "drop">>)
        ELSE IF proj.err # NoErr
        THEN Res(s, proj.err, NoReturn, <<"gate", "drop", "demean">>)
        ELSE IF tree.err # NoErr
        THEN Res(s2, tree.err, NoReturn,
                 <<"gate", "drop", "demean", "projection", "decision_tree">>
                     \o tree.calls \o Assigned(tree.writes) \o tree.warned)
        \* spec.class_demeo = decision_tree(spec): the tree returns None
        ELSE Res([s2 EXCEPT !.class_demeo = None_], NoErr, RetNone,
                 <<"gate", "drop", "demean", "projection", "decision_tree">>
                     \o tree.calls \o Assigned(tree.writes + 1))

\* Spectrum.normalize, Spectrum.remove_slope and Spectrum.resample are methods
\* of the Spectrum class.  The slope fitted to the reflectance curve and the
\* first reflectance of the normalised, resampled curve are functions of the
\* raw arrays the Spectrum keeps: they are its attribute raw.  Resampling to a
\* grid fails when the wavelength range does not cover the grid, and leaves
\* the Spectrum on the grid otherwise.
normalize(s) == [s EXCEPT !.refl0 = s.raw.refl0]
remove_slope(s) == [s EXCEPT !.slope = s.raw.slope]
resample(s, grid) ==
    IF SeqMin(s.wave) > SeqMin(grid) \/ SeqMax(s.wave) < SeqMax(grid)
    THEN [err |-> "CoverageError", wave |-> s.wave]
    ELSE [err |-> NoErr, wave |-> grid]

\* spec.normalize(at=0.55) and spec.remove_slope(translate_to=0.55)
NORMALIZE_AT == 550

\* demeo.preprocess(spec, smooth)
preprocess(s, dbg) ==
    LET s1 == remove_slope(normalize(s))
        rs == resample(s1, WAVE)
        s2 == [s1 EXCEPT !.wave = rs.wave]
    IN  IF rs.err # NoErr
        THEN Res(s1, rs.err, NoReturn, <<"normalize", "remove_slope">>)
        ELSE IF dbg = "quit"
        THEN Res(s2, "BdbQuit", NoReturn, <<"normalize", "remove_slope", "resample">>)
        ELSE Res([s2 EXCEPT !.is_preprocessed_demeo = TRUE], NoErr, RetNone,
                 <<"normalize", "remove_slope", "resample">>)

\* ---------------------------------------------------------------------------
\* tholen.py

\* A class label is the sequence of its letters: "CP" is <<"C", "P">>.
\* The albedo pV is NaN (kind "nan"), a positive number given by its magnitude
\* mag = 1000 * (-2.5 * log10(pV)) (kind "num"), or a negative number, whose
\* logarithm is NaN (kind "neg").
IsNan(pV) == pV.kind = "nan"
\* -2.5 * np.log10(spec.pV) > x and <= x: every comparison with NaN is False
MagGt(pV, x) == pV.kind = "num" /\ pV.mag > x
MagLe(pV, x) == pV.kind = "num" /\ pV.mag <= x

\* np.linalg.norm(spec.tholen_scores - ecas_scores), squared
Norm2(a, b) ==
    LET sq[i \in 0..Len(a)] ==
            IF i = 0 THEN 0 ELSE sq[i - 1] + (a[i] - b[i]) * (a[i] - b[i])
    IN  sq[Len(a)]

\* np.argmin(distances): the first index of the smallest distance
argmin(d) ==
    CHOOSE i \in 1..Len(d) :
        /\ \A j \in 1..Len(d) : d[i] <= d[j]
        /\ \A j \in 1..(i - 1) : d[j] > d[i]

\* tholen.decision_tree, lines 70-79: the class of the closest reference row,
\* a two-letter class cut to its first letter
coarse_class(table, scores) ==
    LET distances == [k \in 1..Len(table) |-> Norm2(scores, table[k].scores)]
        class_ == table[argmin(distances)].class_
    IN  IF Len(class_) = 2 THEN <<class_[1]>> ELSE class_

\* tholen.decision_tree, lines 81-100: the albedo decision tree
albedo_tree(class_, pV) ==
    IF class_ \in {<<"E">>, <<"M">>, <<"P">>, <<"X">>}
    THEN IF IsNan(pV) THEN <<"X">>
         ELSE IF MagGt(pV, 3000) THEN <<"P">>
         ELSE IF MagGt(pV, 1400) THEN <<"M">>
         ELSE <<"E">>
    ELSE IF class_ \in {<<"C">>, <<"F">>, <<"B">>, <<"G">>} /\ MagLe(pV, 1400)
    THEN <<"E">>
    ELSE IF class_ \in {<<"C">>, <<"B">>}
    THEN IF MagGt(pV, 3000) THEN <<"C">> ELSE <<"B">>
    ELSE class_

\* Loading the module tholen.  Line 2 binds the name cache to functools.cache
\* and line 4 binds it again, to the module classy.cache; `@cache` on line 33
\* then calls a module, which raises TypeError while the module is loaded.
\* Nothing of the module is defined after that: load_classification and
\* decision_tree do not exist.
import_tholen == "TypeError"

\* tholen.decision_tree(spec), called by a caller that imports the module.  The
\* body also reads np and pd, which tholen.py never binds.
tholen_decision_tree(s, table) ==
    IF import_tholen # NoErr
    THEN Res(s, import_tholen, NoReturn, <<"import">>)
    ELSE Res(s, NoErr, albedo_tree(coarse_class(table, s.tholen_scores), s.pV),
             <<"import", "load_classification", "nearest", "albedo_tree">>)

\* ---------------------------------------------------------------------------
\* mahlke.py

\* WAVE: 0.45 to 1.05 in steps of 0.025 (25 points), then 1.10 to 2.45 in steps
\* of 0.05 (28 points)
WAVE_MAHLKE ==
    [i \in 1..53 |-> IF i <= 25 THEN 450 + 25 * (i - 1) ELSE 1100 + 50 * (i - 26)]

\* logger.info(...) in mahlke.classify: mahlke.py binds np, pd, data, defs and
\* decision_tree, never the name logger.
mahlke_logger_info == "NameError"

\* data.load("mcfa") -> data._load_mcfa(): reads mcfa/mcfa.pkl at every call
load_mcfa == <<"mcfa.from_file">>

\* The fitted model is a library object; its results are kept as the call
\* that made them.
predict_proba(x) == <<"predict_proba", x>>
impute(x) == <<"impute", x>>
transform(x) == <<"transform", x>>
\* np.argmax(spec.responsibility, axis=1)
cluster(r) == <<"argmax", r>>
\* decision_tree.assign_classes and Spectrum.add_feature_flags
assign_classes(x) == <<"assign_classes", x>>
add_feature_flags(x) == <<"add_feature_flags", x>>

\* The calls mahlke.classify makes after its first assignment to the Spectrum:
\* methods of the fitted model, classy.decision_tree.assign_classes and
\* Spectrum.add_feature_flags.  Any of them may raise; classify has no
\* try/except, so the exception leaves the call where it is raised.  A call of
\* classify is made with `raises` the step whose callee raises, or "none".
Raises == {"none", "impute", "transform", "assign_classes", "add_feature_flags"}
CalleeError == "Exception"

\* A classify that, in its loop over the class names, also assigns class_demeo
mahlke_classify_writing_class_demeo(s, raises) ==
    IF s.refl_pre = <<>> \/ s.pV_pre = <<>>
    THEN Res(s, "AttributeError", NoReturn, <<"coverage", "load_mcfa">>)
    ELSE Res([s EXCEPT !.class_ = <<"class_">>, !.class_demeo = "class_demeo"],
             NoErr, RetNone, <<"coverage", "load_mcfa", "assign_classes">>)

\* A classify that starts from the responsibility an earlier call left
mahlke_classify_from_last_result(s, raises) ==
    IF s.refl_pre = <<>> \/ s.pV_pre = <<>>
    THEN Res(s, "AttributeError", NoReturn, <<"coverage", "load_mcfa">>)
    ELSE Res([s EXCEPT !.responsibility =
                           IF s.responsibility = <<>>
                           THEN predict_proba(<<s.refl_pre, s.pV_pre>>)
                           ELSE predict_proba(<<<<"responsibility">>, s.pV_pre>>),
                       !.class_ = <<"class_">>],
             NoErr, RetNone, <<"coverage", "load_mcfa", "predict_proba">>)

\* A classify whose refinement by feature flags also recomputes the latent
\* scores, from the flagged input
mahlke_classify_refining_latent(s, raises) ==
    IF s.refl_pre = <<>> \/ s.pV_pre = <<>>
    THEN Res(s, "AttributeError", NoReturn, <<"coverage", "load_mcfa">>)
    ELSE
    LET data_input == <<s.refl_pre, s.pV_pre>>
        responsibility == predict_proba(data_input)
        data_latent == transform(impute(data_input))
        data_classified ==
            assign_classes(<<data_input, data_latent, cluster(responsibility),
                             responsibility>>)
    IN  Res([s EXCEPT !.responsibility = responsibility,
                      !.data_imputed = impute(data_input),
                      !.data_latent =
                          transform(impute(<<<<"add_feature_flags">>, s.pV_pre>>)),
                      !.classes = data_classified,
                      !.data_classified = add_feature_flags(data_classified),
                      !.class_ = add_feature_flags(data_classified)],
            NoErr, RetNone,
            <<"coverage", "load_mcfa", "predict_proba", "impute", "transform",
              "assign_classes", "add_feature_flags">>)

\* mahlke.classify(spec)
mahlke_classify(s, raises) ==
    IF SeqMin(s.wave) >= 2450 \/ SeqMax(s.wave) <= 450
    THEN IF mahlke_logger_info # NoErr
         THEN Res(s, mahlke_logger_info, NoReturn, <<"coverage">>)
         ELSE Res([s EXCEPT !.class_mahlke = ""], NoErr, RetNone, <<"coverage">>)
    ELSE IF s.refl_pre = <<>> \/ s.pV_pre = <<>>
    THEN Res(s, "AttributeError", NoReturn, <<"coverage", "load_mcfa">>)
    ELSE
    LET data_input == <<s.refl_pre, s.pV_pre>>
        responsibility == predict_proba(data_input)
        data_imputed == impute(data_input)
        data_latent == transform(data_imputed)
        input_data == <<data_input, data_latent, cluster(responsibility), responsibility>>
        data_classified == assign_classes(input_data)
        \* the Spectrum after lines 37, 40, 41, 53-60 and 63-64
        s37 == [s EXCEPT !.responsibility = responsibility]
        s40 == [s37 EXCEPT !.data_imputed = data_imputed]
        s41 == [s40 EXCEPT !.data_latent = data_latent]
        s60 == [s41 EXCEPT !.data_classified = data_classified,
                           !.classes = data_classified]
        s64 == [s60 EXCEPT !.data_classified = add_feature_flags(data_classified),
                           !.class_ = add_feature_flags(data_classified)]
    IN  IF raises = "impute"
        THEN Res(s37, CalleeError, NoReturn, <<"coverage", "load_mcfa", "predict_proba">>)
        ELSE IF raises = "transform"
        THEN Res(s40, CalleeError, NoReturn,
                 <<"coverage", "load_mcfa", "predict_proba", "impute">>)
        ELSE IF raises = "assign_classes"
        THEN Res(s41, CalleeError, NoReturn,
                 <<"coverage", "load_mcfa", "predict_proba", "impute", "transform">>)
        ELSE IF raises = "add_feature_flags"
        THEN Res(s60, CalleeError, NoReturn,
                 <<"coverage", "load_mcfa", "predict_proba", "impute", "transform",
                   "assign_classes">>)
        ELSE Res(s64, NoErr, RetNone,
                 <<"coverage", "load_mcfa", "predict_proba", "impute", "transform",
                   "assign_classes", "add_feature_flags">>)

\* mahlke.preprocess(spec, resample_params)
mahlke_preprocess(s) ==
    LET rs == resample(s, WAVE_MAHLKE)
    IN  IF rs.err # NoErr
        THEN Res(s, rs.err, NoReturn, <<"detect_features">>)
        ELSE Res([s EXCEPT !.wave = rs.wave,
                           !.refl_pre = <<"refl_pre">>,
                           !.pV_pre = <<"log10", s.pV>>],
                 NoErr, RetNone, <<"detect_features", "resample", "normalize">>)

\* ---------------------------------------------------------------------------
\* The spectra the calls are made on

\* Scores PC1..PC5, one point in each part of the DeMeo tree: step 1, the
\* S-complex of step 2, step 3 and the C/X-complex.
ScoreSet ==
    { <<-500, 300, -150, -50, -50>>, <<-200, 0, -150, -50, -50>>,
      <<-900, -250, -150, -50, -50>>, <<-500, -250, 0, 50, -50>> }
\* Slopes on either side of 0.4, 0.55 and 1.5, and first reflectances on
\* either side of 0.92
SlopeSet == {100, 450, 600, 1600}
Refl0Set == {900, 1000}
\* What preprocessing and projection make of the raw reflectance curve
RawSet ==
    {[slope |-> sl, refl0 |-> 1000, scores |-> sc] : sl \in {100, 600}, sc \in ScoreSet}

\* pc0_demeo..pc4_demeo written by a caller with values of an earlier spectrum
StalePC == <<-200, 0, -150, -50, -50>>

\* Wavelength arrays: inside the grids, beyond both, and the DeMeo grid itself
WaveSet == {<<500, 1000>>, <<2500, 3000>>, WAVE}

\* The reference table ecas/ecas_scores.csv: rows of seven scores and a class.
Row(a, b, g, c) == [scores |-> <<a, b, 0, 0, 0, 0, g>>, class_ |-> c]
ECAS_TABLE ==
    << Row(0, 0, 0, <<"E">>),      Row(10, 0, 0, <<"C">>),
       Row(0, 10, 0, <<"S">>),     Row(10, 10, 0, <<"X", "C">>),
       Row(20, 0, 0, <<"M">>),     Row(20, 10, 0, <<"P">>),
       Row(0, 20, 0, <<"X">>),     Row(10, 20, 0, <<"F">>),
       Row(20, 20, 0, <<"B">>),    Row(0, 0, 10, <<"G">>),
       Row(10, 0, 10, <<"C", "G", "U">>),
       Row(0, 10, 10, <<"B", "F">>) >>

\* Scores of the spectrum: every row itself, and points between rows.
TholenScoreSet ==
    {ECAS_TABLE[k].scores : k \in 1..Len(ECAS_TABLE)}
        \cup {<<5, 0, 0, 0, 0, 0, 0>>, <<1, 1, 0, 0, 0, 0, 1>>, <<15, 15, 0, 0, 0, 0, 0>>}

Num(m) == [kind |-> "num", mag |-> m]
PVSet == {[kind |-> "nan", mag |-> 0], [kind |-> "neg", mag |-> 0],
          Num(3500), Num(3000), Num(2000), Num(1400), Num(1000)}

\* A Spectrum as a loader and a caller leave it: none of the attributes the
\* classifiers write exists yet.
Spectrum(wave, raw, refl0, slope, scores, pcs, tscores, pV) ==
    [ wave |-> wave, raw |-> raw, refl0 |-> refl0, slope |-> slope, pV |-> pV,
      is_preprocessed_demeo |-> FALSE,
      scores_demeo |-> scores, pc_demeo |-> pcs, class_demeo |-> Unset,
      tholen_scores |-> tscores,
      is_preprocessed_mahlke |-> FALSE,
      refl_pre |-> <<>>, pV_pre |-> <<>>, class_mahlke |-> Unset,
      responsibility |-> <<>>, data_imputed |-> <<>>, data_latent |-> <<>>,
      data_classified |-> <<>>, classes |-> <<>>, class_ |-> <<>> ]

DefaultScores == ECAS_TABLE[1].scores
DefaultPV == [kind |-> "nan", mag |-> 0]
DefaultRaw == [slope |-> 100, refl0 |-> 1000, scores |-> <<-500, 300, -150, -50, -50>>]

\* spectra over wavelength arrays, scores and slopes; a caller may have
\* written scores_demeo and pc0_demeo..pc4_demeo
DemeoSpectra ==
    UNION { {Spectrum(w, raw, r, sl, sc, pcs, DefaultScores, DefaultPV) :
                w \in WaveSet, r \in Refl0Set, sl \in SlopeSet,
                sc \in {<<>>, raw.scores}, pcs \in {<<>>, raw.scores, StalePC}} :
            raw \in RawSet }

\* spectra a caller has given refl_pre and pV_pre
MahlkeSpectra ==
    {[Spectrum(w, DefaultRaw, 1000, 100, <<>>, <<>>, DefaultScores, pV)
        EXCEPT !.refl_pre = <<"refl_pre">>, !.pV_pre = <<"log10", pV>>] :
        w \in WaveSet, pV \in {DefaultPV, Num(2000)}}

\* spectra over all ECAS scores and albedos
TholenSpectra ==
    {Spectrum(WAVE, DefaultRaw, 1000, 100, <<>>, <<>>, ts, pV) :
        ts \in TholenScoreSet, pV \in PVSet}

\* ---------------------------------------------------------------------------
\* The loaders of the reference data

NThreads == 2
Threads == 1..NThreads
\* A backing store is read at most MaxReads times in a behaviour.
MaxReads == 2

\* tholen.load_classification, demeo.load_classification and data.load("mcfa")
Loaders == {"tholen.load_classification", "demeo.load_classification", "data.load"}

Idle == [pc |-> "idle", loader |-> "none"]
At(pc, l) == [pc |-> pc, loader |-> l]

\* No thread is in a loader, nothing is cached, nothing has been read.
NoLoads ==
    /\ threads = [t \in Threads |-> Idle]
    /\ lru = "empty"
    /\ reads = [l \in Loaders |-> 0]

Init ==
    /\ spec \in DemeoSpectra \cup MahlkeSpectra \cup TholenSpectra
    /\ op = "new"
    /\ err = NoErr
    /\ ret = NoReturn
    /\ trace = <<>>
    /\ NoLoads

\* ---------------------------------------------------------------------------
\* The calls

Call(name, res) ==
    /\ spec' = res.spec
    /\ op' = name
    /\ err' = res.err
    /\ ret' = res.ret
    /\ trace' = res.trace
    /\ UNCHANGED <<threads, lru, reads>>

DemeoIsClassifiable ==
    Call("demeo.is_classifiable",
         Res(spec, NoErr, RetBool(is_classifiable(spec)), <<>>))

DemeoPreprocess ==
    \E dbg \in Debugger : Call("demeo.preprocess", preprocess(spec, dbg))

DemeoClassify ==
    \E dbg \in Debugger : Call("demeo.classify", classify(spec, dbg))

DemeoDecisionTree ==
    LET tree == decision_tree(spec)
    IN  Call("demeo.decision_tree",
             Res([spec EXCEPT !.class_demeo = tree.class_demeo], tree.err,
                 IF tree.err = NoErr THEN RetNone ELSE NoReturn,
                 <<"decision_tree">> \o tree.calls \o Assigned(tree.writes) \o tree.warned))

TholenDecisionTree ==
    Call("tholen.decision_tree", tholen_decision_tree(spec, ECAS_TABLE))

MahlkePreprocess == Call("mahlke.preprocess", mahlke_preprocess(spec))

MahlkeClassify ==
    \E raises \in Raises : Call("mahlke.classify", mahlke_classify(spec, raises))

Next ==
    \/ DemeoIsClassifiable
    \/ DemeoPreprocess
    \/ DemeoClassify
    \/ DemeoDecisionTree
    \/ TholenDecisionTree
    \/ MahlkePreprocess
    \/ MahlkeClassify

Spec == Init /\ [][Next]_vars

\* ---------------------------------------------------------------------------
\* The threads of a process in the loaders

\* The threads work in the loaders, not on the Spectrum.
InLoader == UNCHANGED <<spec, op, err, ret, trace>>

\* A thread calls a loader.
ThreadCall(t, l) ==
    /\ InLoader
    /\ threads[t] = Idle
    /\ threads' = [threads EXCEPT ![t] = At("called", l)]
    /\ UNCHANGED <<lru, reads>>

\* tholen.load_classification: the module tholen does not load (import_tholen),
\* so the thread that asks for the function gets the exception.
TholenImport(t) ==
    /\ InLoader
    /\ threads[t] = At("called", "tholen.load_classification")
    /\ import_tholen # NoErr
    /\ threads' = [threads EXCEPT ![t] = At("raised", "tholen.load_classification")]
    /\ UNCHANGED <<lru, reads>>

\* demeo.load_classification is wrapped by lru_cache(maxsize=None).  The
\* wrapper looks the key up; on a miss it calls the function, with no lock
\* held, and stores what the function returns.
LruLookup(t) ==
    /\ InLoader
    /\ threads[t] = At("called", "demeo.load_classification")
    /\ threads' = [threads EXCEPT ![t] =
                      At(IF lru = "full" THEN "hit" ELSE "miss",
                         "demeo.load_classification")]
    /\ UNCHANGED <<lru, reads>>

\* The body of demeo.load_classification: pd.read_csv(PATH_DATA)
DemeoReadCsv(t) ==
    /\ InLoader
    /\ threads[t] = At("miss", "demeo.load_classification")
    /\ reads["demeo.load_classification"] < MaxReads
    /\ threads' = [threads EXCEPT ![t] = At("read", "demeo.load_classification")]
    /\ reads' = [reads EXCEPT !["demeo.load_classification"] = @ + 1]
    /\ UNCHANGED lru

LruStore(t) ==
    /\ InLoader
    /\ threads[t] = At("read", "demeo.load_classification")
    /\ threads' = [threads EXCEPT ![t] = At("stored", "demeo.load_classification")]
    /\ lru' = "full"
    /\ UNCHANGED reads

\* data.load("mcfa") -> data._load_mcfa(): mcfa.from_file(...), no cache
McfaFromFile(t) ==
    /\ InLoader
    /\ threads[t] = At("called", "data.load")
    /\ reads["data.load"] < MaxReads
    /\ threads' = [threads EXCEPT ![t] = At("read", "data.load")]
    /\ reads' = [reads EXCEPT !["data.load"] = @ + 1]
    /\ UNCHANGED lru

\* The call returns, or its exception reaches the caller.
ThreadReturn(t) ==
    /\ InLoader
    /\ \/ threads[t].pc \in {"hit", "stored", "raised"}
       \/ threads[t] = At("read", "data.load")
    /\ threads' = [threads EXCEPT ![t] = Idle]
    /\ UNCHANGED <<lru, reads>>

LoadInit ==
    /\ spec = Spectrum(WAVE, DefaultRaw, 1000, 100, <<>>, <<>>, DefaultScores, DefaultPV)
    /\ op = "new"
    /\ err = NoErr
    /\ ret = NoReturn
    /\ trace = <<>>
    /\ NoLoads

LoadNext ==
    \E t \in Threads :
        \/ \E l \in Loaders : ThreadCall(t, l)
        \/ TholenImport(t)
        \/ LruLookup(t)
        \/ DemeoReadCsv(t)
        \/ LruStore(t)
        \/ McfaFromFile(t)
        \/ ThreadReturn(t)

LoadSpec == LoadInit /\ [][LoadNext]_vars

\* ---------------------------------------------------------------------------
\* The decision tree of demeo.py and its two sub-trees, called by a caller on
\* a Spectrum that carries scores: the specification TreeSpec.

\* PC1 and PC2 on both sides of the eight boundary lines, PC3..PC5 in and out
\* of the ranges of step 3 and of the C/X-complex, slopes on both sides of 0,
\* 0.2, 0.25, 0.38, 0.4, 0.55 and 1.5.
TreePC1 == {-900, -500, -200, 0, 200, 600}
TreePC2 == {-250, -150, 0, 300, 600}
TreePC345 == {<<-150, -50, -50>>, <<0, 50, -50>>, <<0, 0, -50>>, <<0, -50, 50>>}
TreeSlope == {-100, 100, 250, 300, 450, 600, 1600}
TreeScores == {<<pc1, pc2>> \o r : pc1 \in TreePC1, pc2 \in TreePC2, r \in TreePC345}
\* the DeMeo grid, and an array that starts elsewhere
TreeWave == {WAVE, <<500, 1000>>}

\* The result of a tree called on the Spectrum, as the result of a call
TreeRes(s, name, tree) ==
    Res([s EXCEPT !.class_demeo = tree.class_demeo], tree.err,
        IF tree.err = NoErr THEN RetNone ELSE NoReturn,
        <<name>> \o tree.calls \o Assigned(tree.writes) \o tree.warned)

DemeoSComplex ==
    Call("demeo.demeo_s_complex",
         TreeRes(spec, "demeo_s_complex", demeo_s_complex(spec)))

DemeoCAndXComplexes ==
    Call("demeo.demeo_c_and_x_complexes",
         TreeRes(spec, "demeo_c_and_x_complexes", demeo_c_and_x_complexes(spec)))

\* A Spectrum with scores_demeo; pc0_demeo..pc4_demeo are absent, or a caller
\* has written them, with the same scores or with those of another spectrum.
TreeInit ==
    /\ \E sc \in TreeScores, w \in TreeWave, r \in Refl0Set, sl \in TreeSlope :
           \E pcs \in {<<>>, sc, StalePC} :
               spec = Spectrum(w, DefaultRaw, r, sl, sc, pcs, DefaultScores, DefaultPV)
    /\ op = "new"
    /\ err = NoErr
    /\ ret = NoReturn
    /\ trace = <<>>
    /\ NoLoads

TreeNext ==
    \/ DemeoDecisionTree
    \/ DemeoSComplex
    \/ DemeoCAndXComplexes

TreeSpec == TreeInit /\ [][TreeNext]_vars

\* ---------------------------------------------------------------------------
\* Claims

\* The class labels of the DeMeo+ 2009 system
DemeoLabels ==
    {"A", "Sa", "V", "Vw", "O", "Q", "Qw", "R", "S", "Sw", "Sq", "Sqw", "Sr", "Srw",
     "Sv", "Svw", "D", "T", "L", "K", "B", "X", "Cgh", "Ch", "Cb", "C", "Cg", "Xk", "Xe"}

\* The letter classes of the Tholen 1984 system
TholenLetters ==
    {"A", "B", "C", "D", "E", "F", "G", "M", "P", "Q", "R", "S", "T", "V", "X"}

\* The steps of a classify call that come after its checks of the Spectrum
ClassifierSteps ==
    {"projection", "decision_tree", "load_mcfa", "predict_proba", "impute",
     "transform", "assign_classes", "add_feature_flags"}
Ran(step) == \E i \in 1..Len(trace) : trace[i] = step

\* The wavelength range does not span the DeMeo grid: the test of
\* is_classifiable
OutsideDemeoGrid == SeqMin(spec.wave) > SeqMin(WAVE) \/ SeqMax(spec.wave) < SeqMax(WAVE)

\* The wavelength range does not cover the whole of [0.45, 2.45]
NotCoveringMahlke == SeqMin(spec.wave) > 450 \/ SeqMax(spec.wave) < 2450

\* The coarse class of the Spectrum in the reference table
Coarse == coarse_class(ECAS_TABLE, spec.tholen_scores)

\* C1: after DeMeo classify on a preprocessed spectrum whose projected scores
\* have PC1 < -0.3 and PC2 >= 0.2, class_demeo is "A" when the slope is in
\* [0.55, 1.5) and "Sa" when it is in [0.4, 0.55).
C1_ClassifyGivesAOrSa ==
    ( /\ op = "demeo.classify"
      /\ spec.is_preprocessed_demeo
      /\ spec.raw.scores[1] < -300
      /\ spec.raw.scores[2] >= 200 )
    => /\ (550 <= spec.slope /\ spec.slope < 1500) => spec.class_demeo = "A"
       /\ (400 <= spec.slope /\ spec.slope < 550) => spec.class_demeo = "Sa"

\* C2: Mahlke classify on a spectrum whose wavelength range does not cover the
\* whole of [0.45, 2.45] ends with the empty class label, and in that call the
\* mixture model is neither loaded nor evaluated.
C2_MahlkeRejectsPartialCoverage ==
    (op = "mahlke.classify" /\ NotCoveringMahlke)
    => /\ spec.class_mahlke = ""
       /\ ~ Ran("load_mcfa")
       /\ ~ Ran("predict_proba") /\ ~ Ran("impute") /\ ~ Ran("transform")

\* C3: the Tholen decision tree, for a coarse class E, M, P or X, returns "X"
\* when pV is NaN and otherwise, with m = -2.5 log10(pV), "P" if m > 3, "M" if
\* 1.4 < m <= 3 and "E" if m <= 1.4.
C3_TholenAlbedoEMPX ==
    ( /\ op = "tholen.decision_tree"
      /\ Coarse \in {<<"E">>, <<"M">>, <<"P">>, <<"X">>}
      /\ spec.pV.kind \in {"nan", "num"} )
    => ret = IF spec.pV.kind = "nan" THEN <<"X">>
             ELSE IF spec.pV.mag > 3000 THEN <<"P">>
             ELSE IF spec.pV.mag > 1400 THEN <<"M">>
             ELSE <<"E">>

\* C4: the Tholen decision tree, for a coarse class C, F, B or G and
\* -2.5 log10(pV) <= 1.4, returns "E" (never "C" or "B").
C4_TholenBrightCFBGIsE ==
    ( /\ op = "tholen.decision_tree"
      /\ Coarse \in {<<"C">>, <<"F">>, <<"B">>, <<"G">>}
      /\ spec.pV.kind = "num" /\ spec.pV.mag <= 1400 )
    => ret = <<"E">>

\* C5: the Tholen decision tree, for a coarse class C or B and
\* -2.5 log10(pV) > 1.4, returns "C" if -2.5 log10(pV) > 3 and "B" otherwise;
\* a coarse class outside {E, M, P, X, C, B} (F and G with
\* -2.5 log10(pV) > 1.4) is returned unchanged.
C5_TholenCBSplitAndPassThrough ==
    (op = "tholen.decision_tree" /\ spec.pV.kind = "num" /\ spec.pV.mag > 1400)
    => /\ Coarse \in {<<"C">>, <<"B">>}
          => ret = IF spec.pV.mag > 3000 THEN <<"C">> ELSE <<"B">>
       /\ Coarse \notin {<<"E">>, <<"M">>, <<"P">>, <<"X">>, <<"C">>, <<"B">>}
          => ret = Coarse

\* The first row, in table order, among those closest to the Spectrum's scores
FirstNearestRow ==
    CHOOSE k \in 1..Len(ECAS_TABLE) :
        /\ \A j \in 1..Len(ECAS_TABLE) :
              Norm2(spec.tholen_scores, ECAS_TABLE[k].scores)
                  <= Norm2(spec.tholen_scores, ECAS_TABLE[j].scores)
        /\ \A j \in 1..(k - 1) :
              Norm2(spec.tholen_scores, ECAS_TABLE[j].scores)
                  > Norm2(spec.tholen_scores, ECAS_TABLE[k].scores)

\* C6: the Tholen coarse class is the class of the closest reference row, the
\* first such row in table order (the row itself at distance 0): when that row
\* has a one-letter class the albedo tree passes through, the decision tree
\* returns that class.
C6_TholenNearestRow ==
    LET row == ECAS_TABLE[FirstNearestRow]
    IN  ( /\ op = "tholen.decision_tree"
          /\ Len(row.class_) = 1
          /\ row.class_[1] \notin {"E", "M", "P", "X", "C", "F", "B", "G"} )
        => ret = row.class_

\* C7: the Tholen decision tree returns a single Tholen letter for every
\* reference class and every albedo, never a label of several letters.
C7_TholenSingleLetter ==
    (op = "tholen.decision_tree") => (Len(ret) = 1 /\ ret[1] \in TholenLetters)

\* C8: DeMeo classify ends without error, with class_demeo a class label of the
\* system or the empty string.
C8_DemeoTotal ==
    (op = "demeo.classify")
    => (err = NoErr /\ spec.class_demeo \in DemeoLabels \cup {""})

\* C9: DeMeo classify on a spectrum whose wavelength range does not span the
\* DeMeo grid gives the coverage-failure outcome (no exception, the empty class)
\* and does not run the decision tree.
C9_DemeoCoverageGate ==
    (op = "demeo.classify" /\ OutsideDemeoGrid)
    => (err = NoErr /\ spec.class_demeo = "" /\ ~ Ran("decision_tree"))

\* C10: classify on a Spectrum whose is_preprocessed gate of the scheme is not
\* true ends with an error, and none of the steps after the checks of the
\* Spectrum has run.
C10_UnpreprocessedIsAnError ==
    /\ (op = "demeo.classify" /\ ~ spec.is_preprocessed_demeo)
          => (err # NoErr /\ \A st \in ClassifierSteps : ~ Ran(st))
    /\ (op = "mahlke.classify" /\ ~ spec.is_preprocessed_mahlke)
          => (err # NoErr /\ \A st \in ClassifierSteps : ~ Ran(st))

\* The attributes of the Spectrum that the classify call of a scheme writes
DemeoFields(s) == <<s.scores_demeo, s.class_demeo>>
MahlkeFields(s) ==
    <<s.class_mahlke, s.responsibility, s.data_imputed, s.data_latent,
      s.data_classified, s.classes, s.class_>>

\* C11: a classify call that ends with an error leaves the attributes of its
\* scheme on the Spectrum as they were before the call.
C11_FailedClassifyWritesNothing ==
    [][ /\ (op' = "demeo.classify" /\ err' # NoErr)
              => DemeoFields(spec') = DemeoFields(spec)
        /\ (op' = "mahlke.classify" /\ err' # NoErr)
              => MahlkeFields(spec') = MahlkeFields(spec) ]_vars

\* The number of assignments to spec.class_demeo the last call made
ClassDemeoWrites == Cardinality({i \in 1..Len(trace) : trace[i] = "class_demeo="})

\* C12: one call of DeMeo classify assigns class_demeo exactly once.
C12_ClassDemeoWrittenOnce ==
    (op = "demeo.classify") => ClassDemeoWrites = 1

\* C13: in one process each backing store of reference data is read at most
\* once, whatever the calls of the loaders.
C13_ReferenceDataReadOnce ==
    \A l \in Loaders : reads[l] <= 1

\* Two threads are in their calls of loader l at once and each has read the
\* backing store in its call.
BothRead(l) ==
    \E t1, t2 \in Threads :
        /\ t1 # t2
        /\ threads[t1] = At("read", l)
        /\ threads[t2] = At("read", l)

\* C14: two threads that call a loader at the same time never both read its
\* backing store.
C14_ConcurrentFirstAccessLoadsOnce ==
    \A l \in Loaders : ~ BothRead(l)

\* C15: a classification under one scheme leaves the attributes the
\* classifications under the other schemes write as they are.
C15_SchemesDoNotInterfere ==
    [][ /\ (op' = "demeo.classify") => MahlkeFields(spec') = MahlkeFields(spec)
        /\ (op' = "mahlke.classify") => DemeoFields(spec') = DemeoFields(spec)
        /\ (op' = "tholen.decision_tree")
              => /\ DemeoFields(spec') = DemeoFields(spec)
                 /\ MahlkeFields(spec') = MahlkeFields(spec) ]_vars

\* A Spectrum classified by the DeMeo tree, then classified following Mahlke
C15_ClassifiedUnderBoth ==
    /\ op = "mahlke.classify"
    /\ err = NoErr
    /\ spec.class_ # <<>>
    /\ spec.class_demeo \in DemeoLabels

\* What the classifiers read of a Spectrum
InputFields(s) ==
    <<s.wave, s.raw, s.refl0, s.slope, s.pV, s.tholen_scores, s.refl_pre, s.pV_pre>>

IsGrid(w, n, first, step, last) ==
    /\ Len(w) = n
    /\ w[1] = first
    /\ \A i \in 1..(Len(w) - 1) : w[i + 1] - w[i] = step
    /\ w[Len(w)] = last

\* C17 as stated: the DeMeo grid WAVE, and with it the wavelengths of a
\* Spectrum that DeMeo preprocess has resampled, has 40 points from 0.45 to
\* 2.50 in steps of 0.05.
C17_WaveHas40PointsTo250 ==
    /\ IsGrid(WAVE, 40, 450, 50, 2500)
    /\ (op = "demeo.preprocess" /\ err = NoErr) => IsGrid(spec.wave, 40, 450, 50, 2500)

\* C17, amended: the DeMeo grid WAVE, and with it the wavelengths of a Spectrum
\* that DeMeo preprocess has resampled, has 41 points from 0.45 to 2.45 in
\* steps of 0.05; the stop value 2.50 is not a point of the grid.
C17_WaveHas41PointsTo245 ==
    /\ IsGrid(WAVE, 41, 450, 50, 2450)
    /\ (op = "demeo.preprocess" /\ err = NoErr) => IsGrid(spec.wave, 41, 450, 50, 2450)

\* A Spectrum that DeMeo preprocess has resampled to the grid
C17_ResampledToWave ==
    /\ op = "demeo.preprocess"
    /\ err = NoErr
    /\ spec.is_preprocessed_demeo
    /\ spec.wave = WAVE

\* C18: a preprocess call that ends without error leaves the is_preprocessed
\* gate of its scheme true, and one that ends with an error leaves the gate as
\* it was.
C18_PreprocessSetsGate ==
    [][ /\ (op' = "demeo.preprocess")
              => /\ (err' = NoErr) => spec'.is_preprocessed_demeo
                 /\ (err' # NoErr)
                       => spec'.is_preprocessed_demeo = spec.is_preprocessed_demeo
        /\ (op' = "mahlke.preprocess")
              => /\ (err' = NoErr) => spec'.is_preprocessed_mahlke
                 /\ (err' # NoErr)
                       => spec'.is_preprocessed_mahlke = spec.is_preprocessed_mahlke ]_vars

\* The grid points whose reflectance DeMeo classify leaves out of the vector
\* it mean-centres
Removed(w) ==
    {w[i] : i \in 1..Len(w)} \ {DropIndex2(w)[i] : i \in 1..Len(DropIndex2(w))}

\* C19: DeMeo classify on a Spectrum resampled to WAVE removes the reflectance
\* of exactly one grid point before it mean-centres, the point at the
\* normalisation wavelength 0.55.
C19_DropsNormalizationPoint ==
    ( /\ op = "demeo.classify"
      /\ Ran("drop")
      /\ spec.wave = WAVE )
    => Removed(spec.wave) = {NORMALIZE_AT}

\* DeMeo classify has taken the reflectances of a Spectrum on the grid
C19_DroppedOnGrid ==
    /\ op = "demeo.classify"
    /\ Ran("drop")
    /\ spec.is_preprocessed_demeo
    /\ spec.wave = WAVE

\* C20: when DeMeo classify has mean-centred the reflectances of a Spectrum
\* resampled to WAVE, the vector left after the drop has as many elements as
\* DATA_MEAN and as a row of EIGENVECTORS, and the Spectrum then carries
\* exactly five scores.
C20_ShapesAgreeAndFiveScores ==
    ( /\ op = "demeo.classify"
      /\ Ran("demean")
      /\ spec.wave = WAVE )
    => /\ Len(DropIndex2(spec.wave)) = DATA_MEAN_LEN
       /\ Len(DropIndex2(spec.wave)) = EIGENVECTORS_COLS
       /\ Ran("projection")
       /\ Len(spec.scores_demeo) = 5

\* The joint threshold of Vis-IR step 1 on the scores the tree dispatches on
Tier1(s) ==
    /\ Len(s.scores_demeo) >= 4
    /\ s.scores_demeo[1] < -300
    /\ s.scores_demeo[2] >= 200
    /\ s.slope >= 400

\* C21: when the joint threshold of step 1 holds and the slope is 1.5 or more,
\* the decision tree ends with the empty class and calls neither sub-tree.
C21_Tier1Indeterminate ==
    (op = "demeo.decision_tree" /\ Tier1(spec) /\ spec.slope >= 1500)
    => /\ spec.class_demeo = ""
       /\ ~ Ran("demeo_s_complex")
       /\ ~ Ran("demeo_c_and_x_complexes")

\* C22: a tree that ends at an "indeterminate" message (the end of the
\* S-complex sub-tree, the end of the C/X-complex sub-tree, the last branch of
\* step 1) leaves class_demeo the empty string.
C22_IndeterminateIsEmpty ==
    ( /\ op \in {"demeo.decision_tree", "demeo.demeo_s_complex",
                 "demeo.demeo_c_and_x_complexes"}
      /\ Ran(Indeterminate) )
    => spec.class_demeo = ""

\* The calls of the decision tree and of its sub-trees
TreeOps ==
    {"demeo.decision_tree", "demeo.demeo_s_complex", "demeo.demeo_c_and_x_complexes"}

\* The classes with a weathered variant, and the variants
BaseLabels == {"V", "Q", "S", "Sq", "Sr", "Sv"}
WeatheredLabels == {"Vw", "Qw", "Sw", "Sqw", "Srw", "Svw"}

\* C23: when step 2 or the S-complex sub-tree has assigned a class that has a
\* weathered variant, or such a variant, the class is the "w" variant exactly
\* when the slope is 0.25 or more.
C23_WeatheredIffSlope ==
    ( /\ op \in {"demeo.decision_tree", "demeo.demeo_s_complex"}
      /\ Ran("class_demeo=")
      /\ spec.class_demeo \in BaseLabels \cup WeatheredLabels )
    => (spec.class_demeo \in WeatheredLabels <=> spec.slope >= 250)

\* A Spectrum of the tree specification with the given scores, written to
\* scores_demeo and to pc0_demeo..pc4_demeo, and the given slope
Scored(sc, sl) == Spectrum(WAVE, DefaultRaw, 1000, sl, sc, sc, DefaultScores, DefaultPV)

\* The classes step 2 assigns itself, and those among them that decision_tree
\* assigns to some Spectrum with PC1 above the alpha line
Tier2Labels == {"V", "Vw", "O", "Q", "Qw", "R"}
Tier2Assigned ==
    {c \in Tier2Labels :
        \E sc \in TreeScores, sl \in TreeSlope :
            /\ sc[1] > alpha(sc[2])
            /\ decision_tree(Scored(sc, sl)) = Out(c, NoErr)}

\* C24: each of V, Vw, O, Q, Qw and R is assigned by the decision tree to some
\* Spectrum with PC1 above the alpha line.
C24_Tier2LabelsReachable ==
    (op = "demeo.decision_tree") => (Tier2Assigned = Tier2Labels)

\* The labels of the S-complex, and those among them that a test of the
\* sub-tree assigns to some Spectrum: the sub-tree ends without having
\* reached its last statement, the "indeterminate" warning
SComplexLabels == {"S", "Sw", "Sq", "Sqw", "Sr", "Srw", "Sv", "Svw"}
SComplexAssigned ==
    {c \in SComplexLabels :
        \E sc \in TreeScores, sl \in TreeSlope :
            demeo_s_complex(Scored(sc, sl)) = Out(c, NoErr)}

\* C25: each of the eight labels of the S-complex is assigned by a test of the
\* sub-tree, not by its final fall-through, to some Spectrum.
C25_SComplexLabelsReachable ==
    (op = "demeo.demeo_s_complex") => (SComplexAssigned = SComplexLabels)

\* The values PC3 may take, and wavelength arrays that start as w does
PC3Set == {-150, 0, 200}
SameStart(w) == {w, <<w[1]>>, <<w[1], 3000>>}

\* Spectra that agree with s on pc0_demeo, pc3_demeo, pc4_demeo, the slope
\* and the first reflectance, and differ from it in pc1_demeo, pc2_demeo,
\* scores_demeo or the wavelength array
AgreeingOnFive(s) ==
    IF s.pc_demeo = <<>>
    THEN {[s EXCEPT !.wave = w, !.scores_demeo = sc] :
             w \in TreeWave, sc \in {<<>>, StalePC}}
    ELSE {[s EXCEPT !.wave = w, !.scores_demeo = sc,
                    !.pc_demeo = <<@[1], pc2, pc3, @[4], @[5]>>] :
             w \in TreeWave, sc \in {<<>>, StalePC}, pc2 \in TreePC2, pc3 \in PC3Set}

\* Spectra that also agree with s on pc1_demeo and on the first wavelength
VariantsOnSeven(s) ==
    IF s.pc_demeo = <<>>
    THEN {[s EXCEPT !.wave = w, !.scores_demeo = sc] :
             w \in SameStart(s.wave), sc \in {<<>>, StalePC}}
    ELSE {[s EXCEPT !.wave = w, !.scores_demeo = sc,
                    !.pc_demeo = <<@[1], @[2], pc3, @[4], @[5]>>] :
             w \in SameStart(s.wave), sc \in {<<>>, StalePC}, pc3 \in PC3Set}

\* C26 as stated: after the C/X-complex sub-tree, every Spectrum that agrees
\* with this one on PC1, PC4, PC5, the slope and the first reflectance gets
\* the same class and the same end from the sub-tree.
C26_FunctionOfFiveValues ==
    (op = "demeo.demeo_c_and_x_complexes")
    => \A v \in AgreeingOnFive(spec) :
           /\ demeo_c_and_x_complexes(v).class_demeo = spec.class_demeo
           /\ demeo_c_and_x_complexes(v).err = err

\* C26: after the C/X-complex sub-tree, every Spectrum that agrees with this
\* one on PC1, PC2, PC4, PC5, the slope, the first reflectance and the first
\* wavelength, whatever its PC3, its scores_demeo and the rest of its
\* wavelength array, gets the same class and the same end from the sub-tree.
C26_FunctionOfSevenValues ==
    (op = "demeo.demeo_c_and_x_complexes")
    => \A v \in VariantsOnSeven(spec) :
           /\ demeo_c_and_x_complexes(v).class_demeo = spec.class_demeo
           /\ demeo_c_and_x_complexes(v).err = err

\* The C/X-complex sub-tree has assigned a class on scores it could read
C26_SubTreeAssigned ==
    /\ op = "demeo.demeo_c_and_x_complexes"
    /\ spec.pc_demeo # <<>>
    /\ Ran("class_demeo=")
    /\ spec.class_demeo \in {"Xe", "Cgh", "Cb"}

\* The ranges step 3 gives the classes D, T, L and K, on the scores and the
\* slope of the Spectrum
InD(s) == 380 <= s.slope /\ s.slope < 1500 /\ -440 < s.scores_demeo[1] /\ s.scores_demeo[1] < 400
InT(s) ==
    /\ 250 < s.slope /\ s.slope < 380
    /\ -280 < s.scores_demeo[2] /\ s.scores_demeo[2] < -200
    /\ -200 < s.scores_demeo[3] /\ s.scores_demeo[3] < -120
InL(s) ==
    /\ 70 < s.scores_demeo[1] /\ s.scores_demeo[1] < 1000
    /\ -500 < s.scores_demeo[2] /\ s.scores_demeo[2] < -150
InK(s) ==
    /\ -75 < s.scores_demeo[3] /\ s.scores_demeo[3] < 140
    /\ -200 <= s.scores_demeo[2] /\ s.scores_demeo[2] < -100
    /\ -800 < s.scores_demeo[1] /\ s.scores_demeo[1] < -100
\* The first of D, T, L, K whose ranges the Spectrum is in
FirstOfDTLK(s) ==
    IF InD(s) THEN "D" ELSE IF InT(s) THEN "T" ELSE IF InL(s) THEN "L"
    ELSE IF InK(s) THEN "K" ELSE "none"

\* PC1 is not above the alpha line
NotAboveAlpha(s) ==
    Len(s.scores_demeo) >= 4 /\ s.scores_demeo[1] <= alpha(s.scores_demeo[2])

\* C27: when the decision tree is called with PC1 not above the alpha line and
\* the Spectrum is in the ranges of one or several of D, T, L, K, class_demeo
\* is the first of them in that order and the C/X-complex sub-tree has not
\* been called.
C27_Tier3PriorityOrder ==
    ( /\ op = "demeo.decision_tree"
      /\ NotAboveAlpha(spec)
      /\ FirstOfDTLK(spec) # "none" )
    => /\ spec.class_demeo = FirstOfDTLK(spec)
       /\ ~ Ran("demeo_c_and_x_complexes")

\* The decision tree has classified a Spectrum that is in the ranges of D and
\* of L
C27_InDAndL ==
    /\ op = "demeo.decision_tree"
    /\ NotAboveAlpha(spec)
    /\ InD(spec) /\ InL(spec)
    /\ spec.class_demeo = "D"

\* The input vector of Mahlke classify: refl_pre followed by pV_pre
DataInput(s) == <<s.refl_pre, s.pV_pre>>

\* C28: once Mahlke classify has assigned the classes, the responsibility on
\* the Spectrum is that of the input vector as it is, the latent scores are the
\* transform of the imputed input vector, and the classes were assigned on the
\* arg-max of that responsibility; when the call has ended, the refinement by
\* feature flags was its last step, class_ is the refinement of those classes,
\* and responsibility, imputed data and latent scores are as they were when
\* the classes were assigned.
C28_MahlkeStepOrder ==
    (op = "mahlke.classify" /\ Ran("assign_classes"))
    => /\ spec.responsibility = predict_proba(DataInput(spec))
       /\ spec.data_imputed = impute(DataInput(spec))
       /\ spec.data_latent = transform(spec.data_imputed)
       /\ spec.classes =
              assign_classes(<<DataInput(spec), spec.data_latent,
                               cluster(spec.responsibility), spec.responsibility>>)
       /\ Ran("add_feature_flags")
              => /\ trace[Len(trace)] = "add_feature_flags"
                 /\ spec.class_ = add_feature_flags(spec.classes)
                 /\ spec.data_classified = spec.class_
       /\ ~ Ran("add_feature_flags") => spec.data_classified = spec.classes

\* Mahlke classify has ended after the refinement by feature flags
C28_Refined ==
    /\ op = "mahlke.classify"
    /\ err = NoErr
    /\ Ran("add_feature_flags")
    /\ spec.class_ # <<>>

\* The Spectrum with the scores of scores_demeo as pc0_demeo..pc4_demeo
ReadingScores(s) == [s EXCEPT !.pc_demeo = s.scores_demeo]

\* C29: when the decision tree, called by classify or by a caller, has called
\* a sub-tree, the sub-tree has found the scores it reads, and the class and
\* the end of the call are those the tree gives when the sub-tree reads the
\* scores of scores_demeo, on which the tree dispatched.
C29_SubTreesReadStoredScores ==
    ( /\ op \in {"demeo.classify", "demeo.decision_tree"}
      /\ Ran("demeo_s_complex") \/ Ran("demeo_c_and_x_complexes") )
    => /\ err # "AttributeError"
       /\ decision_tree(ReadingScores(spec)).class_demeo = spec.class_demeo
       /\ decision_tree(ReadingScores(spec)).err = err

\* C30: the Tholen decision tree on a Spectrum whose pV is NaN returns "X"
\* exactly for the coarse classes E, M, P and X, "B" for the coarse classes C
\* and B, and F and G unchanged; it does not return "E" for a coarse class C,
\* F, B or G.
C30_TholenUnknownAlbedo ==
    (op = "tholen.decision_tree" /\ IsNan(spec.pV))
    => /\ (ret = <<"X">>) <=> (Coarse \in {<<"E">>, <<"M">>, <<"P">>, <<"X">>})
       /\ Coarse \in {<<"C">>, <<"B">>} => ret = <<"B">>
       /\ Coarse \in {<<"F">>, <<"G">>} => ret = Coarse
       /\ Coarse \in {<<"C">>, <<"F">>, <<"B">>, <<"G">>} => ret # <<"E">>

====
